---------------------------- MODULE Spec2Model ----------------------------
(***************************************************************************)
(* SmartSched scheduling engine (SchedulerService): priority scorer, topic *)
(* ranker, schedule generator and the task lifecycle operations, modelled   *)
(* over the tasks / progress_logs / daily_stats tables.                     *)
(*                                                                          *)
(* Units.  Dates are day offsets from CURRENT_DATE (today = 0; the clock    *)
(* does not advance).  estimated_hours and daily_study_hours are            *)
(* DECIMAL(n,1) columns and are kept in tenths of an hour.  The in-memory   *)
(* remaining_hours of a pool entry is kept in tenths of a minute, so that   *)
(* 0.3 * estimated_hours and sessionMinutes / 60 are both exact.            *)
(* priority_score is DECIMAL(6,2) and is kept in hundredths.  Arithmetic is *)
(* exact (IEEE rounding residue of the JavaScript doubles is not modelled). *)
(***************************************************************************)
EXTENDS Integers, Sequences, FiniteSets, TLC

\* ------------------------------------------------------------------ bounds
\* Largest `days` argument passed to generateSchedule.
MaxDays == 2
\* Number of service calls (generate / complete / skip) in one behaviour.
MaxOps == 2

\* ------------------------------------------------------- program constants
MinDailyMinutes == 30
MaxDailyMinutes == 480
DefaultDailyHours == 4
MinSession == 25
MaxSession == 60
RevisionSession == 30
RevisionLimit == 10
RevisionScore == 20
maxCycles == 3
SkipWindow == 14
SkipCeiling == 240

NULL == -1

Users == {1, 2}
Procs == {1, 2}

MsgNoTopics == "No topics available for scheduling. Add topics to your subjects first."
MsgNoSubjects == "No subjects found. Please add subjects and topics first before generating a schedule."
MsgAllCompleted == "All topics completed! Add new subjects and topics or mark topics as incomplete for revision."
MsgNoTasks == "Could not generate any tasks. Please check your topics have estimated hours set."
\* Faulty variant of MsgError: the catch block reuses the no-tasks message.
MsgErrorReused == "Could not generate any tasks. Please check your topics have estimated hours set."
MsgError == "An error occurred while generating the schedule. Please try again."
MsgGenerated == "Generated study tasks"
MsgNotFound == "Task not found"
MsgCompleted == "Task completed successfully"
MsgSkipped == "Task skipped and rescheduled"

\* ------------------------------------------------------------ small helpers
Min2(a, b) == IF a <= b THEN a ELSE b
Max2(a, b) == IF a >= b THEN a ELSE b

\* JavaScript `x || d` on a number column: 0 and null are falsy.
OrDefault(x, d) == IF x = NULL \/ x = 0 THEN d ELSE x

\* Faulty variant of OrDefaultText: a zero value also takes the default.
OrDefaultTextZeroFalsy(x, d) == IF x = NULL \/ x = 0 THEN d ELSE x

\* JavaScript `x || d` on a DECIMAL column: the driver hands DECIMAL values
\* over as text, and a non-empty string such as "0.0" is truthy; only null
\* falls through to the default.
OrDefaultText(x, d) == IF x = NULL THEN d ELSE x

\* Math.round(n / d) for n >= 0, d > 0 (halves round up).
RoundDiv(n, d) == (2 * n + d) \div (2 * d)

\* Math.ceil(n / d) for d > 0.
CeilDiv(n, d) == -((-n) \div d)

RECURSIVE SumSeq(_)
SumSeq(s) == IF s = <<>> THEN 0 ELSE Head(s) + SumSeq(Tail(s))

RECURSIVE SumOver(_, _)
\* Sum of f[x] over the finite set S.
SumOver(f, S) ==
    IF S = {} THEN 0
    ELSE LET x == CHOOSE y \in S : TRUE IN f[x] + SumOver(f, S \ {x})

\* ------------------------------------------------------------- the worlds
\* The subject / topic / study_session / users rows are owned by the CRUD
\* layer and are read-only to the scheduler: a behaviour starts in one of the
\* worlds below and keeps it.  Learner 2 never has a subject.
Subj(id, user, prio, hasExam, examDays, archived) ==
    [id |-> id, user_id |-> user, priority_level |-> prio, has_exam |-> hasExam,
     exam_days |-> examDays, is_archived |-> archived]

Topic(id, subject, diff, imp, est, done, upd) ==
    [id |-> id, subject_id |-> subject, difficulty |-> diff, importance |-> imp,
     estimated_hours |-> est, is_completed |-> done, updated_at |-> upd]

NoPerf == [present |-> FALSE, avg_score |-> 0, session_count |-> 0,
           has_last |-> FALSE, days_since |-> 0, total_minutes |-> 0]

Perf(avg, cnt, since, total) ==
    [present |-> TRUE, avg_score |-> avg, session_count |-> cnt,
     has_last |-> TRUE, days_since |-> since, total_minutes |-> total]

TaskRow(user, topic, type, date, minutes, prio, score, status, origin) ==
    [user_id |-> user, topic_id |-> topic, task_type |-> type,
     scheduled_date |-> date, estimated_minutes |-> minutes, priority |-> prio,
     priority_score |-> score, status |-> status, origin |-> origin]

\* A calendar whose every date of the skip window already carries 240 min.
FullCalendar == [d \in 1..SkipWindow |->
                    TaskRow(1, 1, "practice", d, 240, 3, 0, "pending", "manual")]

World(name, hours, subjects, topics, perf, tasks) ==
    [name |-> name, daily_study_hours |-> hours, subjects |-> subjects,
     topics |-> topics, perf |-> perf, tasks |-> tasks]

Worlds ==
    { World("no-subjects", 40, {}, {}, <<>>, <<>>),
      World("no-topics", 40, {Subj(1, 1, 3, FALSE, 0, FALSE)}, {}, <<>>, <<>>),
      World("all-completed", 40, {Subj(1, 1, 3, FALSE, 0, FALSE)},
            {Topic(1, 1, "medium", 3, 10, TRUE, 1), Topic(2, 1, "hard", 4, 20, TRUE, 2)},
            <<NoPerf, NoPerf>>,
            <<TaskRow(1, 1, "study", 0, 30, 2, 1500, "completed", "gen")>>),
      World("one-short-topic", 10, {Subj(1, 1, 3, FALSE, 0, FALSE)},
            {Topic(1, 1, "medium", 3, 5, FALSE, 1)},
            <<NoPerf>>, <<>>),
      World("exam-two-topics", 15,
            {Subj(1, 1, 5, TRUE, 2, FALSE), Subj(2, 1, 2, FALSE, 0, TRUE)},
            {Topic(1, 1, "hard", 5, 20, FALSE, 1), Topic(2, 1, "easy", 2, 10, FALSE, 2),
             Topic(3, 2, "medium", 3, 10, FALSE, 3)},
            <<NoPerf, Perf(80, 2, 5, 30), NoPerf>>,
            <<TaskRow(1, 2, "practice", 1, 230, 3, 0, "pending", "manual"),
              TaskRow(1, 1, "study", 0, 25, 5, 10400, "pending", "gen")>>),
      World("tight-day", 9, {Subj(1, 1, 3, FALSE, 0, FALSE)},
            {Topic(1, 1, "medium", 3, 10, FALSE, 1), Topic(2, 1, "medium", 3, 5, FALSE, 2)},
            <<NoPerf, NoPerf>>,
            <<TaskRow(1, 1, "revision", 1, 32, 5, 0, "pending", "manual"),
              TaskRow(1, 2, "study", 2, 25, 3, 2700, "pending", "gen")>>),
      World("full-calendar", 0, {Subj(1, 1, 4, FALSE, 0, FALSE)},
            {Topic(1, 1, "easy", 1, NULL, FALSE, 1)},
            <<Perf(95, 1, 40, 20)>>,
            FullCalendar) }

\* Worlds of the 7-day scenarios.  "zero-hours": daily_study_hours is 0, a
\* short topic and a long one, no tasks.  "one-hour-topic": one hour a day,
\* a topic of one estimated hour and a topic whose half hour has already
\* been studied for 45 minutes.  "two-long-topics": two and a half hours a
\* day and two topics of three hours, the one of lower score fetched first.
\* "two-short-topics": one hour a day and two topics of half an hour.
ScenarioWorlds ==
    { World("zero-hours", 0, {Subj(1, 1, 3, FALSE, 0, FALSE)},
            {Topic(1, 1, "medium", 5, 4, FALSE, 1), Topic(2, 1, "medium", 3, 40, FALSE, 2)},
            <<NoPerf, NoPerf>>, <<>>),
      World("one-hour-topic", 10, {Subj(1, 1, 3, FALSE, 0, FALSE)},
            {Topic(1, 1, "medium", 3, 10, FALSE, 1), Topic(2, 1, "easy", 1, 5, FALSE, 2)},
            <<NoPerf, Perf(70, 1, 1, 45)>>, <<>>),
      World("two-long-topics", 25, {Subj(1, 1, 3, FALSE, 0, FALSE)},
            {Topic(1, 1, "hard", 3, 30, FALSE, 1), Topic(2, 1, "easy", 5, 30, FALSE, 2)},
            <<NoPerf, Perf(95, 1, 1, 0)>>, <<>>),
      World("two-short-topics", 10, {Subj(1, 1, 3, FALSE, 0, FALSE)},
            {Topic(1, 1, "hard", 3, 5, FALSE, 1), Topic(2, 1, "easy", 3, 5, FALSE, 2)},
            <<NoPerf, NoPerf>>, <<>>) }

\* generateSchedule(userId, days = 7)
ScenarioDays == 7


\* ------------------------------------------------------------------ state
VARIABLES
    world,          \* name of the world: subjects, topics, sessions, preferences
    tasks,          \* tasks table: id -> row
    nextId,         \* next task id the table hands out
    progress_logs,  \* progress_logs table: sequence of rows
    daily_stats,    \* daily_stats table: user -> today's row (or NoStat)
    gen,            \* per call of generateSchedule: its locals and position
    lastOp,         \* what the last finished call returned (or raised)
    opCount,        \* calls started so far
    probe           \* one call of a pure function: its name, argument, result

vars == <<world, tasks, nextId, progress_logs, daily_stats, gen, lastOp, opCount, probe>>

\* The rows of the world the behaviour runs in.
W == CHOOSE w \in Worlds \cup ScenarioWorlds : w.name = world

\* ------------------------------------------------------- Priority Scorer
difficultyScore(d) ==
    CASE d = "easy" -> 1
      [] d = "medium" -> 2
      [] d = "hard" -> 3
      [] OTHER -> 2

\* Math.max(1, Math.ceil((examDate - today) / day)); exam_days is the ceil.
daysRemaining(subject) == Max2(1, subject.exam_days)

\* Faulty variant of urgencyTerm: the cap of 10 is missing.
urgencyTermUncapped(subject) == RoundDiv(15000, daysRemaining(subject))

\* urgencyScore * 5 in hundredths: min(10, 30 / daysRemaining) * 5, as the
\* final Math.round(priority * 100) / 100 leaves it.
urgencyTerm(subject) ==
    Min2(5000, RoundDiv(15000, daysRemaining(subject)))

\* Faulty variant of examBonus: the bonus is given up to a week ahead.
examBonusWithinAWeek(subject) == IF daysRemaining(subject) <= 7 THEN 15 ELSE 0

examBonus(subject) == IF daysRemaining(subject) <= 3 THEN 15 ELSE 0

\* Faulty variant of performanceBoost: a never-studied topic gets +5.
performanceBoostLowStart(p) ==
    IF p.present /\ p.session_count > 0
    THEN IF p.avg_score < 40 THEN 8
         ELSE IF p.avg_score < 60 THEN 5
         ELSE IF p.avg_score < 75 THEN 3
         ELSE IF p.avg_score >= 90 THEN -2
         ELSE 0
    ELSE 5

\* Faulty variant of performanceBoost: mastered topics are boosted.
performanceBoostMasteredUp(p) ==
    IF p.present /\ p.session_count > 0
    THEN IF p.avg_score < 40 THEN 8
         ELSE IF p.avg_score < 60 THEN 5
         ELSE IF p.avg_score < 75 THEN 3
         ELSE IF p.avg_score >= 90 THEN 2
         ELSE 0
    ELSE 8

performanceBoost(p) ==
    IF p.present /\ p.session_count > 0
    THEN IF p.avg_score < 40 THEN 8
         ELSE IF p.avg_score < 60 THEN 5
         ELSE IF p.avg_score < 75 THEN 3
         ELSE IF p.avg_score >= 90 THEN -2
         ELSE 0
    ELSE 8

spacedRepetitionBoost(p) ==
    IF p.present /\ p.has_last
    THEN IF p.days_since >= 30 THEN 6
         ELSE IF p.days_since >= 14 THEN 4
         ELSE IF p.days_since >= 7 THEN 2
         ELSE IF p.days_since >= 3 THEN 1
         ELSE 0
    ELSE 0

\* calculateTopicPriority(topic, subject, performanceData), in hundredths.
calculateTopicPriority(topic, subject, p) ==
    100 * ( OrDefault(subject.priority_level, 3) * 3
          + difficultyScore(topic.difficulty) * 2
          + (IF subject.has_exam THEN examBonus(subject) ELSE 0)
          + OrDefault(topic.importance, 3) * 2
          + performanceBoost(p)
          + (IF topic.is_completed THEN -15 ELSE 0)
          + spacedRepetitionBoost(p) )
    + (IF subject.has_exam THEN urgencyTerm(subject) ELSE 0)

\* ----------------------------------------------------------- Topic Ranker
SubjectOf(w, topic) == CHOOSE s \in w.subjects : s.id = topic.subject_id

\* Rows of `topics JOIN subjects` for the learner's non-archived subjects.
JoinedTopics(w, userId) ==
    {t \in w.topics : \E s \in w.subjects :
        s.id = t.subject_id /\ s.user_id = userId /\ ~s.is_archived}

\* WHERE ... AND t.is_completed = false
EligibleTopics(w, userId) == {t \in JoinedTopics(w, userId) : ~t.is_completed}

\* The sequences over S that list every element once.
Orderings(S) ==
    {s \in [1..Cardinality(S) -> S] : \A i, j \in 1..Cardinality(S) : i # j => s[i] # s[j]}

\* ORDER BY s.priority_level DESC, t.importance DESC: rows that tie on both
\* keys come back in an order the database chooses.
FetchOrders(w, userId) ==
    {s \in Orderings(EligibleTopics(w, userId)) :
        \A i, j \in 1..Len(s) : i < j =>
            \/ SubjectOf(w, s[i]).priority_level > SubjectOf(w, s[j]).priority_level
            \/ /\ SubjectOf(w, s[i]).priority_level = SubjectOf(w, s[j]).priority_level
               /\ s[i].importance >= s[j].importance}

\* Math.max(0, (estimated_hours || 1) - total_minutes / 60), tenths of a minute.
remainingHours(topic, p) ==
    Max2(0, OrDefaultText(topic.estimated_hours, 10) * 60
            - (IF p.present THEN p.total_minutes ELSE 0) * 10)

\* One entry of the prioritised list (the fields the generator reads).
Ranked(w, topic) ==
    [id |-> topic.id,
     priority_score |-> calculateTopicPriority(topic, SubjectOf(w, topic), w.perf[topic.id]),
     remaining_hours |-> remainingHours(topic, w.perf[topic.id]),
     estimated_hours |-> topic.estimated_hours,
     is_completed |-> topic.is_completed,
     is_revision |-> FALSE]

RECURSIVE InsertDescUnstable(_, _)
\* Faulty variant of InsertDesc: x goes before the entries of equal score.
InsertDescUnstable(x, s) ==
    IF s = <<>> THEN <<x>>
    ELSE IF Head(s).priority_score > x.priority_score
         THEN <<Head(s)>> \o InsertDescUnstable(x, Tail(s))
         ELSE <<x>> \o s

RECURSIVE InsertDesc(_, _)
\* Insert x after every entry whose score is >= x's (a stable descending sort).
InsertDesc(x, s) ==
    IF s = <<>> THEN <<x>>
    ELSE IF Head(s).priority_score >= x.priority_score
         THEN <<Head(s)>> \o InsertDesc(x, Tail(s))
         ELSE <<x>> \o s

\* Faulty variant of SortDesc: the list is left in fetch order.
SortNone(s) == s

RECURSIVE SortDesc(_)
\* prioritizedTopics.sort((a, b) => b.priority_score - a.priority_score)
SortDesc(s) ==
    IF s = <<>> THEN <<>>
    ELSE InsertDesc(s[Len(s)], SortDesc(SubSeq(s, 1, Len(s) - 1)))

\* getPrioritizedTopics(userId), given the order the fetch returned.
getPrioritizedTopics(w, fetched) ==
    SortDesc([i \in 1..Len(fetched) |-> Ranked(w, fetched[i])])

\* ------------------------------------------------------ Schedule Generator
\* getUserPreferences(userId).daily_study_hours (tenths of an hour); the
\* fallback object applies when the users row is missing.
getUserPreferences(w, userId) ==
    IF userId = 1 THEN w.daily_study_hours ELSE DefaultDailyHours * 10

\* Faulty variant of resolveDailyMinutes: the floor of 30 minutes is missing.
resolveDailyMinutesNoFloor(hours) ==
    Min2(OrDefaultText(hours, DefaultDailyHours * 10) * 6, MaxDailyMinutes)

\* Math.min(Math.max(30, (daily_study_hours || 4) * 60), 480)
resolveDailyMinutes(hours) ==
    Min2(Max2(MinDailyMinutes, OrDefaultText(hours, DefaultDailyHours * 10) * 6),
         MaxDailyMinutes)

\* SELECT COUNT(*) FROM subjects WHERE user_id = $1 AND is_archived = false
subjectCheck(w, userId) ==
    Cardinality({s \in w.subjects : s.user_id = userId /\ ~s.is_archived})

\* Faulty variant of emptyPoolMessage: the subject count is not consulted.
emptyPoolMessageNoCheck(w, userId) == MsgNoSubjects

\* The message of the pool-empty return when nothing was ranked.
emptyPoolMessage(w, userId) ==
    IF subjectCheck(w, userId) > 0 THEN MsgNoTopics ELSE MsgNoSubjects

\* ... ORDER BY t.updated_at ASC LIMIT 10
revisionTopics(w, userId) ==
    LET all == CHOOSE s \in Orderings(JoinedTopics(w, userId)) :
                   \A i, j \in 1..Len(s) : i < j => s[i].updated_at <= s[j].updated_at
    IN  SubSeq(all, 1, Min2(RevisionLimit, Len(all)))

RevisionEntry(topic) ==
    [id |-> topic.id, priority_score |-> RevisionScore * 100,
     remaining_hours |-> 300, estimated_hours |-> topic.estimated_hours,
     is_completed |-> topic.is_completed, is_revision |-> TRUE]

\* Pool resolution of generateSchedule: either a failure message or the
\* list topicsToSchedule.
resolvePool(w, userId, fetched) ==
    LET prioritizedTopics == getPrioritizedTopics(w, fetched)
        incompletTopics == SelectSeq(prioritizedTopics, LAMBDA t : ~t.is_completed)
        revision == revisionTopics(w, userId)
    IN  IF Len(prioritizedTopics) = 0
        THEN [ok |-> FALSE, message |-> emptyPoolMessage(w, userId), pool |-> <<>>]
        ELSE IF Len(incompletTopics) > 0
        THEN [ok |-> TRUE, message |-> "", pool |-> prioritizedTopics]
        ELSE IF Len(revision) = 0
        THEN [ok |-> FALSE, message |-> MsgAllCompleted, pool |-> <<>>]
        ELSE [ok |-> TRUE, message |-> "",
              pool |-> [i \in 1..Len(revision) |-> RevisionEntry(revision[i])]]

\* Faulty variant of purged: the status filter is dropped.
purgedAnyStatus(store, userId) ==
    {id \in DOMAIN store :
        /\ store[id].user_id = userId
        /\ store[id].scheduled_date > 0
        /\ store[id].task_type = "study"}

\* DELETE FROM tasks WHERE user_id = $1 AND scheduled_date > CURRENT_DATE
\*   AND status = 'pending' AND task_type = 'study'
purged(store, userId) ==
    {id \in DOMAIN store :
        /\ store[id].user_id = userId
        /\ store[id].scheduled_date > 0
        /\ store[id].status = "pending"
        /\ store[id].task_type = "study"}

Without(store, ids) == [id \in DOMAIN store \ ids |-> store[id]]

With(store, id, row) == [i \in DOMAIN store \cup {id} |-> IF i = id THEN row ELSE store[i]]

Minutes(store) == [id \in DOMAIN store |-> store[id].estimated_minutes]

\* SELECT COALESCE(SUM(estimated_minutes), 0) FROM tasks
\*   WHERE user_id = $1 AND scheduled_date = $2 AND status != 'completed'
existingMinutes(store, userId, date) ==
    SumOver(Minutes(store),
            {id \in DOMAIN store :
                /\ store[id].user_id = userId
                /\ store[id].scheduled_date = date
                /\ store[id].status # "completed"})

\* Math.min(is_revision ? 30 : remaining_hours * 60, 60, remainingMinutes),
\* in tenths of a minute.
topicMinutesNeeded(topic, remainingMinutes) ==
    Min2(Min2(IF topic.is_revision THEN RevisionSession * 10 ELSE topic.remaining_hours,
              MaxSession * 10),
         remainingMinutes * 10)

\* Faulty variant of sessionMinutes: the length is not rounded to 5.
sessionMinutesUnrounded(topic, remainingMinutes) ==
    Max2(MinSession, topicMinutesNeeded(topic, remainingMinutes) \div 10)

\* Math.max(25, Math.round(topicMinutesNeeded / 5) * 5)
sessionMinutes(topic, remainingMinutes) ==
    Max2(MinSession, RoundDiv(topicMinutesNeeded(topic, remainingMinutes), 50) * 5)

\* Faulty variant of exhausted: no topic counts as exhausted.
exhaustedNever(topic) == FALSE

\* !topic.is_revision && topic.remaining_hours <= 0
exhausted(topic) == ~topic.is_revision /\ topic.remaining_hours <= 0

\* Faulty variant of sessionFits: the fit test is dropped.
sessionFitsAlways(topic, remainingMinutes) == TRUE

\* The negation of `sessionMinutes > remainingMinutes`.
sessionFits(topic, remainingMinutes) ==
    sessionMinutes(topic, remainingMinutes) <= remainingMinutes

RECURSIVE nextPlaceable(_, _, _)
\* The two `topicIndex++; continue` branches of the allocation loop: the
\* first index >= topicIndex (0-based) whose topic gets a task, or the
\* pool's length when the loop runs off the end.
nextPlaceable(pool, topicIndex, remainingMinutes) ==
    IF topicIndex >= Len(pool) THEN Len(pool)
    ELSE IF exhausted(pool[topicIndex + 1]) \/ ~sessionFits(pool[topicIndex + 1], remainingMinutes)
         THEN nextPlaceable(pool, topicIndex + 1, remainingMinutes)
         ELSE topicIndex

\* Faulty variant of taskPriority: the quotient is rounded down.
taskPriorityFloor(score) == Min2(5, score \div 1000)

\* Math.min(5, Math.ceil(priority_score / 10))
taskPriority(score) == Min2(5, CeilDiv(score, 1000))

\* The row the INSERT of the allocation loop writes for a pool entry.
generatedRow(userId, topic, dayOffset, minutes) ==
    TaskRow(userId, topic.id, "study", dayOffset, minutes,
            taskPriority(topic.priority_score), topic.priority_score,
            "pending", "gen")

\* topic.remaining_hours -= sessionMinutes / 60 (not for revision topics)
consume(topic, minutes) ==
    IF topic.is_revision THEN topic
    ELSE [topic EXCEPT !.remaining_hours = @ - minutes * 10]

\* Faulty variant of mustAdvance: the limit of two tasks is dropped.
mustAdvanceExhaustedOnly(topic, tasksAddedThisDay) == topic.remaining_hours <= 0

\* The deterministic part of the variety rule; Math.random() is drawn only
\* when neither disjunct holds (short-circuit ||).
mustAdvance(topic, tasksAddedThisDay) ==
    topic.remaining_hours <= 0 \/ tasksAddedThisDay >= 2

\* Faulty variant of replenish: the whole estimate is restored.
replenishFull(topic) ==
    IF topic.is_revision THEN topic
    ELSE [topic EXCEPT !.remaining_hours = OrDefaultText(topic.estimated_hours, 10) * 60]

\* t.remaining_hours = Math.max((t.estimated_hours || 1) * 0.3, t.remaining_hours)
replenish(topic) ==
    IF topic.is_revision THEN topic
    ELSE [topic EXCEPT !.remaining_hours =
              Max2(OrDefaultText(topic.estimated_hours, 10) * 18, @)]

\* ------------------------------------------------- call records and tables
Dates == 0..SkipWindow

\* Ghost: how many of the learner's tasks sit on a date.
tasksOn(store, userId, date) ==
    Cardinality({id \in DOMAIN store :
        store[id].user_id = userId /\ store[id].scheduled_date = date})

\* Ghost: the learner's date distribution, <<date, count>> for every date
\* that carries a task.
dateCounts(store, userId) ==
    {<<d, tasksOn(store, userId, d)>> : d \in {e \in Dates : tasksOn(store, userId, e) > 0}}

\* Ghost: how many tasks in the table were inserted by generateSchedule.
generatorTasks(store, userId) ==
    Cardinality({id \in DOMAIN store :
        store[id].user_id = userId /\ store[id].origin = "gen"})

NoPrev == [op |-> "none", userId |-> 0, days |-> 0, success |-> FALSE,
           draws |-> <<>>, total |-> 0, dist |-> {}]

NoOp == [n |-> 0, op |-> "none", userId |-> 0, taskId |-> 0, fault |-> "none",
         success |-> FALSE, message |-> "", raised |-> FALSE, days |-> 0,
         dailyMinutes |-> 0, tasks |-> <<>>, committed |-> <<>>, draws |-> <<>>,
         total |-> 0, dist |-> {}, deleted |-> {}, prev |-> NoPrev]

\* What a later call remembers of the call that finished just before it.
Summary(op) == [op |-> op.op, userId |-> op.userId, days |-> op.days,
                success |-> op.success, draws |-> op.draws, total |-> op.total,
                dist |-> op.dist]

GenIdle == [pc |-> "idle", userId |-> 0, days |-> 0, dailyMinutes |-> 0,
            topicsToSchedule |-> <<>>, generatedTasks |-> <<>>, topicIndex |-> 0,
            cycleCount |-> 0, dayOffset |-> 0, remainingMinutes |-> 0,
            tasksAddedThisDay |-> 0, committed |-> <<>>, draws |-> <<>>,
            deleted |-> {}, prev |-> NoPrev, n |-> 0]

\* No pure function is being called on its own.
NoProbe == [fn |-> "none", done |-> FALSE]

NoStat == [present |-> FALSE, tasks_planned |-> 0, tasks_completed |-> 0]

MissingId == 0

Init ==
    /\ world \in {w.name : w \in Worlds}
    /\ tasks = [id \in 1..Len(W.tasks) |-> W.tasks[id]]
    /\ nextId = Len(W.tasks) + 1
    /\ progress_logs = <<>>
    /\ daily_stats = [u \in Users |-> NoStat]
    /\ gen = [p \in Procs |-> GenIdle]
    /\ lastOp = NoOp
    /\ opCount = 0
    /\ probe = NoProbe

\* No call of generateSchedule is in flight.
Quiet == \A p \in Procs : gen[p].pc = "idle"

\* ------------------------------------------------ generateSchedule, steps
\* One action per database round trip; the code between two awaits runs
\* without interruption.

\* The result object of a generateSchedule call that ends now.
GenResult(g, success, message, store) ==
    [n |-> g.n, op |-> "gen", userId |-> g.userId, taskId |-> 0, fault |-> "none",
     success |-> success, message |-> message, raised |-> FALSE, days |-> g.days,
     dailyMinutes |-> g.dailyMinutes, tasks |-> g.generatedTasks,
     committed |-> g.committed, draws |-> g.draws,
     total |-> generatorTasks(store, g.userId),
     dist |-> dateCounts(store, g.userId), deleted |-> g.deleted, prev |-> g.prev]

\* generateSchedule(userId, days) is called.
GenStart(p, userId, days) ==
    /\ gen[p].pc = "idle"
    /\ opCount < MaxOps
    /\ opCount' = opCount + 1
    /\ gen' = [gen EXCEPT ![p] = [GenIdle EXCEPT !.pc = "prefs", !.userId = userId,
                                     !.days = days, !.prev = Summary(lastOp),
                                     !.n = opCount + 1]]
    /\ UNCHANGED <<probe, world, tasks, nextId, progress_logs, daily_stats, lastOp>>

\* await this.getUserPreferences(userId), then the clamp.
GenPrefs(p) ==
    /\ gen[p].pc = "prefs"
    /\ gen' = [gen EXCEPT ![p].pc = "resolve",
                           ![p].dailyMinutes =
                               resolveDailyMinutes(getUserPreferences(W, gen[p].userId))]
    /\ UNCHANGED <<probe, world, tasks, nextId, progress_logs, daily_stats, lastOp, opCount>>

\* await this.getPrioritizedTopics(userId) and the pool resolution; the
\* pool-empty cases return here.
GenResolve(p) ==
    /\ gen[p].pc = "resolve"
    /\ \E fetched \in FetchOrders(W, gen[p].userId) :
          LET r == resolvePool(W, gen[p].userId, fetched)
          IN  IF r.ok
              THEN /\ gen' = [gen EXCEPT ![p].pc = "purge", ![p].topicsToSchedule = r.pool]
                   /\ UNCHANGED lastOp
              ELSE /\ gen' = [gen EXCEPT ![p] = GenIdle]
                   /\ lastOp' = GenResult(gen[p], FALSE, r.message, tasks)
    /\ UNCHANGED <<probe, world, tasks, nextId, progress_logs, daily_stats, opCount>>

\* Clear existing auto-generated pending tasks for future dates.
GenPurge(p) ==
    /\ gen[p].pc = "purge"
    /\ tasks' = Without(tasks, purged(tasks, gen[p].userId))
    /\ gen' = [gen EXCEPT ![p].pc = "day",
                           ![p].deleted = purged(tasks, gen[p].userId)]
    /\ UNCHANGED <<probe, world, nextId, progress_logs, daily_stats, lastOp, opCount>>

\* Faulty variant of GenDayQuery: a day with fewer than 25 free minutes is
\* tried again instead of skipped.
GenDayQueryStuck(p) ==
    /\ gen[p].pc = "day"
    /\ gen[p].dayOffset < gen[p].days
    /\ LET existing == existingMinutes(tasks, gen[p].userId, gen[p].dayOffset)
           remaining == gen[p].dailyMinutes - existing
       IN  gen' = IF remaining < MinSession THEN gen
                  ELSE [gen EXCEPT
                           ![p].committed = Append(@, existing),
                           ![p].remainingMinutes = remaining,
                           ![p].tasksAddedThisDay = 0,
                           ![p].pc = "alloc"]
    /\ UNCHANGED <<probe, world, tasks, nextId, progress_logs, daily_stats, lastOp, opCount>>

\* Head of the day loop: the capacity query of the day; a day with fewer
\* than 25 free minutes is skipped by `continue`.
GenDayQuery(p) ==
    /\ gen[p].pc = "day"
    /\ gen[p].dayOffset < gen[p].days
    /\ LET existing == existingMinutes(tasks, gen[p].userId, gen[p].dayOffset)
           remaining == gen[p].dailyMinutes - existing
       IN  gen' = [gen EXCEPT
                ![p].committed = Append(@, existing),
                ![p].remainingMinutes = remaining,
                ![p].tasksAddedThisDay = 0,
                ![p].pc = IF remaining < MinSession THEN "day" ELSE "alloc",
                ![p].dayOffset = IF remaining < MinSession THEN @ + 1 ELSE @]
    /\ UNCHANGED <<probe, world, tasks, nextId, progress_logs, daily_stats, lastOp, opCount>>

\* The allocation loop runs on to the next topic that gets a task.
placeIndex(g) ==
    IF g.remainingMinutes >= MinSession
    THEN nextPlaceable(g.topicsToSchedule, g.topicIndex, g.remainingMinutes)
    ELSE Len(g.topicsToSchedule)

\* One pass of the allocation loop that reaches the INSERT: the task row,
\* the bookkeeping after it and the variety rule.
GenInsert(p) ==
    /\ gen[p].pc = "alloc"
    /\ gen[p].remainingMinutes >= MinSession
    /\ placeIndex(gen[p]) < Len(gen[p].topicsToSchedule)
    /\ LET g == gen[p]
           i == placeIndex(g)
           topic == g.topicsToSchedule[i + 1]
           minutes == sessionMinutes(topic, g.remainingMinutes)
           row == generatedRow(g.userId, topic, g.dayOffset, minutes)
           after == consume(topic, minutes)
           added == g.tasksAddedThisDay + 1
       IN  \E draw \in (IF mustAdvance(after, added) THEN {FALSE} ELSE BOOLEAN) :
             /\ tasks' = With(tasks, nextId, row)
             /\ nextId' = nextId + 1
             /\ gen' = [gen EXCEPT
                    ![p].generatedTasks = Append(@, [id |-> nextId, row |-> row]),
                    ![p].remainingMinutes = @ - minutes,
                    ![p].tasksAddedThisDay = added,
                    ![p].topicsToSchedule = [@ EXCEPT ![i + 1] = after],
                    ![p].draws = IF mustAdvance(after, added) THEN @ ELSE Append(@, draw),
                    ![p].topicIndex = IF mustAdvance(after, added) \/ draw THEN i + 1 ELSE i]
    /\ UNCHANGED <<probe, world, progress_logs, daily_stats, lastOp, opCount>>

\* The allocation loop ends for the day; the cursor wraps when it is past
\* the end of the pool and fewer than maxCycles wraps were made.
GenEndDay(p) ==
    /\ gen[p].pc = "alloc"
    /\ \/ gen[p].remainingMinutes < MinSession
       \/ placeIndex(gen[p]) >= Len(gen[p].topicsToSchedule)
    /\ LET g == gen[p]
           topicIndex == IF g.remainingMinutes < MinSession
                         THEN g.topicIndex ELSE placeIndex(g)
           wrap == topicIndex >= Len(g.topicsToSchedule) /\ g.cycleCount < maxCycles
       IN  gen' = [gen EXCEPT
                ![p].pc = "day",
                ![p].dayOffset = @ + 1,
                ![p].topicIndex = IF wrap THEN 0 ELSE topicIndex,
                ![p].cycleCount = IF wrap THEN @ + 1 ELSE @,
                ![p].topicsToSchedule =
                    IF wrap THEN [k \in 1..Len(@) |-> replenish(@[k])] ELSE @]
    /\ UNCHANGED <<probe, world, tasks, nextId, progress_logs, daily_stats, lastOp, opCount>>

\* After the last day: the zero-tasks failure or the success result.
GenReturn(p) ==
    /\ gen[p].pc = "day"
    /\ gen[p].dayOffset >= gen[p].days
    /\ lastOp' = IF Len(gen[p].generatedTasks) = 0
                 THEN GenResult(gen[p], FALSE, MsgNoTasks, tasks)
                 ELSE GenResult(gen[p], TRUE, MsgGenerated, tasks)
    /\ gen' = [gen EXCEPT ![p] = GenIdle]
    /\ UNCHANGED <<probe, world, tasks, nextId, progress_logs, daily_stats, opCount>>

\* The query the call is waiting on rejects: the catch block of
\* generateSchedule returns the error result.
GenDbFault(p) ==
    /\ \/ gen[p].pc \in {"prefs", "resolve", "purge"}
       \/ gen[p].pc = "day" /\ gen[p].dayOffset < gen[p].days
       \/ /\ gen[p].pc = "alloc"
          /\ gen[p].remainingMinutes >= MinSession
          /\ placeIndex(gen[p]) < Len(gen[p].topicsToSchedule)
    /\ lastOp' = [GenResult(gen[p], FALSE, MsgError, tasks) EXCEPT !.fault = gen[p].pc]
    /\ gen' = [gen EXCEPT ![p] = GenIdle]
    /\ UNCHANGED <<probe, world, tasks, nextId, progress_logs, daily_stats, opCount>>

\* ----------------------------------------------- Task Lifecycle Operations
\* Faulty variant of ownedTask: only pending tasks are found.
ownedTaskPending(store, userId, taskId) ==
    /\ taskId \in DOMAIN store
    /\ store[taskId].user_id = userId
    /\ store[taskId].status = "pending"

\* Faulty variant of ownedTask: the user_id filter is dropped.
ownedTaskAnyUser(store, userId, taskId) == taskId \in DOMAIN store

\* SELECT * FROM tasks WHERE id = $1 AND user_id = $2 (skipTask joins the
\* topic, which the NOT NULL foreign key guarantees to exist).
ownedTask(store, userId, taskId) ==
    taskId \in DOMAIN store /\ store[taskId].user_id = userId

\* The result of a lifecycle call; raised = the catch block re-threw.
LifeResult(op, userId, taskId, fault, success, message, raised) ==
    [NoOp EXCEPT !.n = opCount + 1, !.op = op, !.userId = userId, !.taskId = taskId,
                 !.fault = fault, !.success = success, !.message = message,
                 !.raised = raised, !.prev = Summary(lastOp)]

\* The row updateDailyStats upserts for today.
todayStats(store, userId) ==
    [present |-> TRUE,
     tasks_planned |-> Cardinality({id \in DOMAIN store :
        store[id].user_id = userId /\ store[id].scheduled_date = 0}),
     tasks_completed |-> Cardinality({id \in DOMAIN store :
        /\ store[id].user_id = userId
        /\ store[id].scheduled_date = 0
        /\ store[id].status = "completed"})]

\* updateDailyStats(userId): a failure of the stats query or of the upsert
\* is caught and logged, and the row is left as it was.
updateDailyStats(stats, store, userId, fault) ==
    IF fault \in {"stats", "upsert"} THEN stats
    ELSE [stats EXCEPT ![userId] = todayStats(store, userId)]

\* Database steps of completeTask, in order; a fault names the one that
\* rejects.
CompleteSteps == <<"select", "update", "count", "progress", "stats", "upsert">>
SkipSteps == <<"select", "update", "nextday", "insert">>

StepNo(steps, fault) ==
    IF fault = "none" THEN Len(steps) + 1
    ELSE CHOOSE i \in 1..Len(steps) : steps[i] = fault

\* The step `name` ran to its end before the fault (if any) struck.
Ran(steps, name, fault) == StepNo(steps, name) < StepNo(steps, fault)

\* Faulty variant of completeRaises: updateDailyStats lets its error escape.
completeRaisesAll(fault) == fault # "none"

\* Whether a failure of `fault` escapes completeTask (the catch re-throws
\* everything that reaches it; updateDailyStats swallows its own).
completeRaises(fault) == fault \in {"select", "update", "count", "progress"}

\* completeTask(userId, taskId), the whole handler.
CompleteTask(userId, taskId, fault) ==
    /\ Quiet
    /\ opCount < MaxOps
    /\ opCount' = opCount + 1
    /\ IF fault = "select"
       THEN /\ lastOp' = LifeResult("complete", userId, taskId, fault, FALSE, "", TRUE)
            /\ UNCHANGED <<tasks, progress_logs, daily_stats>>
       ELSE IF ~ownedTask(tasks, userId, taskId)
       THEN /\ fault = "none"
            /\ lastOp' = LifeResult("complete", userId, taskId, fault, FALSE, MsgNotFound, FALSE)
            /\ UNCHANGED <<tasks, progress_logs, daily_stats>>
       ELSE /\ tasks' = IF Ran(CompleteSteps, "update", fault)
                        THEN [tasks EXCEPT ![taskId].status = "completed"]
                        ELSE tasks
            /\ progress_logs' =
                   IF Ran(CompleteSteps, "progress", fault)
                   THEN Append(progress_logs,
                               [user_id |-> userId, task_id |-> taskId,
                                topic_id |-> tasks[taskId].topic_id])
                   ELSE progress_logs
            /\ daily_stats' =
                   IF completeRaises(fault) THEN daily_stats
                   ELSE updateDailyStats(daily_stats, tasks', userId, fault)
            /\ lastOp' =
                   IF completeRaises(fault)
                   THEN LifeResult("complete", userId, taskId, fault, FALSE, "", TRUE)
                   ELSE LifeResult("complete", userId, taskId, fault, TRUE, MsgCompleted, FALSE)
    /\ UNCHANGED <<probe, world, nextId, gen>>

\* SUM(estimated_minutes) of all the learner's tasks on a date.
dayLoad(store, userId, date) ==
    SumOver(Minutes(store),
            {id \in DOMAIN store :
                store[id].user_id = userId /\ store[id].scheduled_date = date})

\* A date of the window the reschedule query accepts: no group of the
\* learner's tasks on it HAVING SUM(estimated_minutes) >= 240.
dateAccepted(store, userId, date) == ~(dayLoad(store, userId, date) >= SkipCeiling)

\* COALESCE(MIN(accepted date in CURRENT_DATE + 1 .. CURRENT_DATE + 14),
\*          CURRENT_DATE + 1)
nextDate(store, userId) ==
    LET accepted == {d \in 1..SkipWindow : dateAccepted(store, userId, d)}
    IN  IF accepted = {} THEN 1
        ELSE CHOOSE d \in accepted : \A e \in accepted : d <= e

\* Math.min(5, (task.priority || 3) + 1)
bumpedPriority(priority) == Min2(5, OrDefault(priority, 3) + 1)

\* (task.priority_score || 0) + 5.  priority_score is a DECIMAL(6,2) column
\* and no type parser is registered, so the driver returns it as text:
\* "35.00" + 5 is the string "35.005", which the INSERT stores rounded to two
\* places (half away from zero).  Only a null score takes the numeric path.
bumpedScore(score) ==
    IF score = NULL THEN 500
    ELSE IF score >= 0 THEN score + 1 ELSE score - 1

\* The row skipTask inserts for the skipped task.
rescheduledRow(store, userId, task) ==
    TaskRow(userId, task.topic_id, task.task_type, nextDate(store, userId),
            task.estimated_minutes, bumpedPriority(task.priority),
            bumpedScore(task.priority_score), "pending", "skip")

\* skipTask(userId, taskId, reason), the whole handler.
SkipTask(userId, taskId, fault) ==
    /\ Quiet
    /\ opCount < MaxOps
    /\ opCount' = opCount + 1
    /\ IF fault = "select"
       THEN /\ lastOp' = LifeResult("skip", userId, taskId, fault, FALSE, "", TRUE)
            /\ UNCHANGED <<tasks, nextId>>
       ELSE IF ~ownedTask(tasks, userId, taskId)
       THEN /\ fault = "none"
            /\ lastOp' = LifeResult("skip", userId, taskId, fault, FALSE, MsgNotFound, FALSE)
            /\ UNCHANGED <<tasks, nextId>>
       ELSE LET marked == IF Ran(SkipSteps, "update", fault)
                          THEN [tasks EXCEPT ![taskId].status = "skipped"]
                          ELSE tasks
            IN  /\ tasks' = IF fault = "none"
                             THEN With(marked, nextId,
                                       rescheduledRow(marked, userId, tasks[taskId]))
                             ELSE marked
                /\ nextId' = IF fault = "none" THEN nextId + 1 ELSE nextId
                /\ lastOp' =
                       IF fault = "none"
                       THEN LifeResult("skip", userId, taskId, fault, TRUE, MsgSkipped, FALSE)
                       ELSE LifeResult("skip", userId, taskId, fault, FALSE, "", TRUE)
    /\ UNCHANGED <<probe, world, progress_logs, daily_stats, gen>>

\* ------------------------------------------------------- the specification
\* Task ids a caller passes: the tasks of today and the two days after it,
\* or an id that names no row.
TargetIds == {id \in DOMAIN tasks : tasks[id].scheduled_date <= 2} \cup {MissingId}

\* The learner who owns every row of the worlds asks for schedules; the
\* other learner appears as the caller of lifecycle operations on rows that
\* are not theirs.
Owner == CHOOSE u \in Users : \A v \in Users : u <= v

CompleteFaults == {"none", "select", "update", "count", "progress", "stats", "upsert"}
SkipFaults == {"none", "select", "update", "nextday", "insert"}

\* Requests are served one at a time: a call starts when no generateSchedule
\* call is in flight.
Next ==
    \/ \E days \in 1..MaxDays : Quiet /\ GenStart(1, Owner, days)
    \/ GenPrefs(1)
    \/ GenResolve(1)
    \/ GenPurge(1)
    \/ GenDayQuery(1)
    \/ GenInsert(1)
    \/ GenEndDay(1)
    \/ GenReturn(1)
    \/ GenDbFault(1)
    \/ \E userId \in Users, taskId \in TargetIds, fault \in CompleteFaults :
          CompleteTask(userId, taskId, fault)
    \/ \E userId \in Users, taskId \in TargetIds, fault \in SkipFaults :
          SkipTask(userId, taskId, fault)

Spec == Init /\ [][Next]_vars

\* -------------------------------------------- pure functions on their own
\* The scorer, the ranker, the capacity clamp and the two row builders are
\* pure: CalcSpec draws an argument for one of them and applies it.

\* Largest ceil(exam_date - today) and ceil(now - last_studied), in days.
MaxExamDays == 31
MaxDaysSince == 31
\* Most topics in a ranked pool.
MaxTopics == 3
\* daily_study_hours is DECIMAL(3,1): -99.9 .. 99.9, in tenths of an hour.
MaxHoursTenths == 999
\* avg_score is AVG(quality_rating) * 20, or 0: the scale 0..100.
MaxAvgScore == 100

HoursValues == {NULL} \cup (0..MaxHoursTenths) \cup {-MaxHoursTenths, -10}

Difficulties == {"easy", "medium", "hard"}
Levels == 1..5

ScoreInput(subject, topic, p) == [subject |-> subject, topic |-> topic, perf |-> p]

\* Scenario A: subject priority 5 with the exam in 2 days, a hard topic of
\* importance 5 and 4 estimated hours, no sessions.
ScenarioA ==
    ScoreInput(Subj(1, 1, 5, TRUE, 2, FALSE), Topic(1, 1, "hard", 5, 40, FALSE, 1), NoPerf)

PlainInput ==
    ScoreInput(Subj(1, 1, 3, FALSE, 0, FALSE), Topic(1, 1, "medium", 3, 10, FALSE, 1), NoPerf)

\* Every combination of the additive terms, with a few aggregates.
FormulaInputs ==
    {ScoreInput(Subj(1, 1, prio, exam[1], exam[2], FALSE),
                Topic(1, 1, diff, imp, 10, done, 1), p) :
        prio \in Levels, exam \in {<<FALSE, 0>>, <<TRUE, 2>>, <<TRUE, 10>>},
        diff \in Difficulties, imp \in Levels, done \in BOOLEAN,
        p \in {NoPerf, Perf(30, 1, 1, 0), Perf(50, 2, 5, 0), Perf(95, 1, 40, 0),
              Perf(95, 1, 1, 0)}}

\* Every aggregate of a studied topic: a row of the GROUP BY has at least
\* one session and a last_studied timestamp.
PerfInputs ==
    {ScoreInput(base.subject, base.topic, Perf(avg, 1, since, 0)) :
        base \in {ScenarioA, PlainInput}, avg \in 0..MaxAvgScore, since \in 0..MaxDaysSince}

\* Every exam distance, the exam day and past exam dates included.
ExamInputs ==
    {ScoreInput([base.subject EXCEPT !.has_exam = TRUE, !.exam_days = d], base.topic, p) :
        base \in {ScenarioA, PlainInput}, d \in (-2)..MaxExamDays,
        p \in {NoPerf, Perf(50, 2, 5, 0)}}

ScoreInputs == {ScenarioA, PlainInput} \cup FormulaInputs \cup PerfInputs \cup ExamInputs

\* The world that holds exactly the rows of a scorer input.
ProbeWorld(in) == World("probe", 40, {in.subject}, {in.topic}, <<in.perf>>, <<>>)

\* Worlds for the ranker: up to MaxTopics incomplete topics under two
\* subjects of priority 5 and 3.
RankShapes == {[subject |-> sub, importance |-> imp, perf |-> p] :
                  sub \in {1, 2}, imp \in {2, 5}, p \in {NoPerf, Perf(95, 1, 1, 0)}}

RankWorldOf(shapes) ==
    World("rank", 40,
          {Subj(1, 1, 5, FALSE, 0, FALSE), Subj(2, 1, 3, FALSE, 0, FALSE)},
          {Topic(i, shapes[i].subject, "medium", shapes[i].importance, 10, FALSE, i) :
              i \in 1..Len(shapes)},
          [i \in 1..Len(shapes) |-> shapes[i].perf], <<>>)

RankWorlds ==
    {RankWorldOf(shapes) : shapes \in UNION {[1..n -> RankShapes] : n \in 0..MaxTopics}}

\* Tasks skipTask may be asked to reschedule: every stored priority.
SkippedRows ==
    {TaskRow(1, 1, "study", 0, 30, prio, score, "pending", "gen") :
        prio \in {NULL} \cup Levels, score \in {NULL, 0, 1500, 10400}}

Idle ==
    /\ world = "no-subjects"
    /\ tasks = <<>>
    /\ nextId = 1
    /\ progress_logs = <<>>
    /\ daily_stats = [u \in Users |-> NoStat]
    /\ gen = [p \in Procs |-> GenIdle]
    /\ lastOp = NoOp
    /\ opCount = 0

Call(fn, arg) == [fn |-> fn, arg |-> arg, done |-> FALSE]

CalcInit ==
    /\ Idle
    /\ \/ \E h \in HoursValues : probe = Call("resolveDailyMinutes", h)
       \/ \E in \in ScoreInputs : probe = Call("calculateTopicPriority", in)
       \/ \E in \in ScoreInputs : ~in.topic.is_completed /\ probe = Call("generatedRow", in)
       \/ \E w \in RankWorlds : probe = Call("getPrioritizedTopics", w)
       \/ \E t \in SkippedRows : probe = Call("rescheduledRow", t)

Called(fn) == probe.fn = fn /\ ~probe.done
Done(fn) == probe.fn = fn /\ probe.done

Return(out) == probe' = [fn |-> probe.fn, arg |-> probe.arg, done |-> TRUE, out |-> out]

FrameCalc ==
    UNCHANGED <<world, tasks, nextId, progress_logs, daily_stats, gen, lastOp, opCount>>

ApplyResolve ==
    /\ Called("resolveDailyMinutes")
    /\ Return(resolveDailyMinutes(probe.arg))
    /\ FrameCalc

ApplyScore ==
    /\ Called("calculateTopicPriority")
    /\ Return(calculateTopicPriority(probe.arg.topic, probe.arg.subject, probe.arg.perf))
    /\ FrameCalc

\* The ranker's entry for the topic, then the row the generator inserts.
ApplyRow ==
    /\ Called("generatedRow")
    /\ Return(generatedRow(1, Ranked(ProbeWorld(probe.arg), probe.arg.topic), 0, MinSession))
    /\ FrameCalc

ApplyRank ==
    /\ Called("getPrioritizedTopics")
    /\ \E fetched \in FetchOrders(probe.arg, 1) :
          Return([fetched |-> fetched, list |-> getPrioritizedTopics(probe.arg, fetched)])
    /\ FrameCalc

ApplyReschedule ==
    /\ Called("rescheduledRow")
    /\ Return(rescheduledRow(<<probe.arg>>, 1, probe.arg))
    /\ FrameCalc

CalcNext ==
    \/ ApplyResolve
    \/ ApplyScore
    \/ ApplyRow
    \/ ApplyRank
    \/ ApplyReschedule

CalcSpec == CalcInit /\ [][CalcNext]_vars

\* ------------------------------------------------------ the 7-day scenarios
\* One generateSchedule call over the default horizon in a scenario world.
ScenarioInit ==
    /\ world \in {w.name : w \in ScenarioWorlds}
    /\ tasks = [id \in 1..Len(W.tasks) |-> W.tasks[id]]
    /\ nextId = Len(W.tasks) + 1
    /\ progress_logs = <<>>
    /\ daily_stats = [u \in Users |-> NoStat]
    /\ gen = [p \in Procs |-> GenIdle]
    /\ lastOp = NoOp
    /\ opCount = 0
    /\ probe = NoProbe

ScenarioNext ==
    \/ Quiet /\ lastOp.op = "none" /\ GenStart(1, Owner, ScenarioDays)
    \/ GenPrefs(1)
    \/ GenResolve(1)
    \/ GenPurge(1)
    \/ GenDayQuery(1)
    \/ GenInsert(1)
    \/ GenEndDay(1)
    \/ GenReturn(1)
    \/ GenDbFault(1)

ScenarioSpec == ScenarioInit /\ [][ScenarioNext]_vars

\* ------------------------------------------------------------- properties
\* Minutes a run's returned tasks put on day `date`.
placedOn(generated, date) ==
    SumSeq([i \in 1..Len(generated) |->
               IF generated[i].row.scheduled_date = date
               THEN generated[i].row.estimated_minutes ELSE 0])

\* The capacity cap for a run with capacity dailyMinutes whose capacity
\* queries returned `committed` (one entry per day processed).
WithinCapacity(dailyMinutes, committed, generated) ==
    \A d \in 1..Len(committed) :
        placedOn(generated, d - 1) <= Max2(0, dailyMinutes - committed[d])

\* C1 (capacity cap, P4): in every run of generateSchedule, in flight or
\* finished, the estimated_minutes of the tasks the run placed on a day sum
\* to at most the clamped daily_minutes minus the minutes the capacity query
\* of that day found committed by not-completed tasks (no minutes when the
\* day was already over capacity).
C1_CapacityCap ==
    /\ \A p \in Procs :
          /\ gen[p].pc \notin {"idle", "prefs"} =>
                gen[p].dailyMinutes \in MinDailyMinutes..MaxDailyMinutes
          /\ WithinCapacity(gen[p].dailyMinutes, gen[p].committed, gen[p].generatedTasks)
    /\ lastOp.op = "gen" =>
          WithinCapacity(lastOp.dailyMinutes, lastOp.committed, lastOp.tasks)

\* A finished run that placed tasks on a day on which other tasks were
\* already committed, and left fewer than 25 free minutes on it.
C1_Witness ==
    /\ lastOp.op = "gen" /\ lastOp.success
    /\ \E d \in 1..Len(lastOp.committed) :
          /\ lastOp.committed[d] > 0
          /\ placedOn(lastOp.tasks, d - 1) > 0
          /\ lastOp.dailyMinutes - lastOp.committed[d] - placedOn(lastOp.tasks, d - 1)
                < MinSession

\* C2 (idempotent regeneration, P5), as claimed: a successful run that
\* directly follows a successful run for the same learner with the same
\* days and the same random draws leaves the same number of generator tasks
\* and the same number of tasks on every date as the first run left.
C2_IdempotentRegeneration ==
    ( /\ lastOp.op = "gen" /\ lastOp.success
      /\ lastOp.prev.op = "gen" /\ lastOp.prev.success
      /\ lastOp.prev.userId = lastOp.userId
      /\ lastOp.prev.days = lastOp.days
      /\ lastOp.prev.draws = lastOp.draws )
    => /\ lastOp.total = lastOp.prev.total
       /\ lastOp.dist = lastOp.prev.dist

\* All of the learner's topics are completed and at least one sits under a
\* non-archived subject.
AllTopicsCompleted(w, userId) ==
    /\ JoinedTopics(w, userId) # {}
    /\ \A t \in w.topics :
          (\E s \in w.subjects : s.id = t.subject_id /\ s.user_id = userId)
              => t.is_completed

\* C3 (revision fallback, P7), as claimed: for a learner whose every topic
\* is completed, generateSchedule (no data-access failure) returns
\* success:true with a non-empty list of revision tasks.
C3_RevisionFallback ==
    ( /\ lastOp.op = "gen" /\ lastOp.fault = "none"
      /\ AllTopicsCompleted(W, lastOp.userId) )
    => /\ lastOp.success
       /\ lastOp.tasks # <<>>
       /\ \A i \in 1..Len(lastOp.tasks) :
             lastOp.tasks[i].row.priority_score = RevisionScore * 100

\* The learner has a non-archived subject / has a topic under any subject.
HasActiveSubject(w, userId) ==
    \E s \in w.subjects : s.user_id = userId /\ ~s.is_archived
HasTopic(w, userId) ==
    \E t \in w.topics : \E s \in w.subjects : s.id = t.subject_id /\ s.user_id = userId

\* C4 (no-topics failure, P6): a finished generateSchedule for a learner with
\* a non-archived subject and no topic returned success:false without
\* raising, and so did one for a learner with no non-archived subject; when
\* no data access failed the first carries the no-topics message, the second
\* the no-subjects message, and the two messages differ.
C4_NoTopicsFailure ==
    /\ MsgNoTopics # MsgNoSubjects
    /\ ( /\ lastOp.op = "gen"
          /\ HasActiveSubject(W, lastOp.userId)
          /\ ~HasTopic(W, lastOp.userId) )
       => /\ ~lastOp.success /\ ~lastOp.raised
          /\ lastOp.message # MsgNoSubjects
          /\ lastOp.fault = "none" => lastOp.message = MsgNoTopics
    /\ ( /\ lastOp.op = "gen"
          /\ ~HasActiveSubject(W, lastOp.userId) )
       => /\ ~lastOp.success /\ ~lastOp.raised
          /\ lastOp.message # MsgNoTopics
          /\ lastOp.fault = "none" => lastOp.message = MsgNoSubjects

\* generateSchedule returned the no-topics message to a learner who has a
\* subject but no topic.
C4_Witness ==
    /\ lastOp.op = "gen" /\ lastOp.message = MsgNoTopics
    /\ HasActiveSubject(W, lastOp.userId)
    /\ ~HasTopic(W, lastOp.userId)

\* A call of `op` finishes in this step.
Finishes(op) == lastOp'.n # lastOp.n /\ lastOp'.op = op

\* C5 (skip boosts priority, P8), as claimed: a successful skipTask inserts
\* exactly one row, pending, for the same topic with the same task type and
\* estimated_minutes, whose priority_score is the original's + 5 and whose
\* priority is min(5, original + 1).
C5_SkipBoostsPriority ==
    [][ (Finishes("skip") /\ lastOp'.success) =>
          /\ DOMAIN tasks' \ DOMAIN tasks = {nextId}
          /\ LET old == tasks[lastOp'.taskId]
                 new == tasks'[nextId]
             IN  /\ new.status = "pending"
                 /\ new.user_id = old.user_id
                 /\ new.topic_id = old.topic_id
                 /\ new.task_type = old.task_type
                 /\ new.estimated_minutes = old.estimated_minutes
                 /\ new.priority_score = old.priority_score + 500
                 /\ new.priority = Min2(5, old.priority + 1) ]_vars

\* A date qualifies for a replacement of `minutes` when its committed
\* minutes, the replacement included, stay within the 240-minute ceiling.
Qualifies(store, userId, date, minutes) ==
    dayLoad(store, userId, date) + minutes <= SkipCeiling

\* C6 (reschedule date), as claimed: the replacement lands in
\* [today+1, today+14]; if a date of the window qualifies it lands on the
\* earliest such date and the learner's minutes on that date, replacement
\* included, do not exceed 240; otherwise it lands tomorrow.
C6_RescheduleDate ==
    [][ (Finishes("skip") /\ lastOp'.success) =>
          LET new == tasks'[nextId]
              userId == lastOp'.userId
              ok == {d \in 1..SkipWindow :
                        Qualifies(tasks, userId, d, new.estimated_minutes)}
          IN  /\ new.scheduled_date \in 1..SkipWindow
              /\ ok # {} => /\ new.scheduled_date \in ok
                             /\ \A d \in ok : new.scheduled_date <= d
                             /\ dayLoad(tasks', userId, new.scheduled_date) <= SkipCeiling
              /\ ok = {} => new.scheduled_date = 1 ]_vars

\* C7 (skipped is terminal), as claimed: no step changes the status of a
\* task that is skipped, or removes the task.
C7_SkippedIsTerminal ==
    [][ \A id \in DOMAIN tasks :
          tasks[id].status = "skipped" =>
              id \in DOMAIN tasks' /\ tasks'[id].status = "skipped" ]_vars

\* C7, amended: a skipped task is never removed, and its status stays
\* skipped through every generateSchedule and skipTask call; the one step
\* that changes it is a completeTask call on that task, which sets it to
\* completed.
C7_SkippedUntilCompleted ==
    [][ \A id \in DOMAIN tasks :
          tasks[id].status = "skipped" =>
              /\ id \in DOMAIN tasks'
              /\ \/ tasks'[id].status = "skipped"
                 \/ /\ tasks'[id].status = "completed"
                    /\ Finishes("complete")
                    /\ lastOp'.taskId = id ]_vars

\* A generateSchedule run has finished after a skipTask call and the
\* skipped task, dated in the future, is still there and still skipped.
C7_Witness ==
    /\ lastOp.op = "gen" /\ lastOp.success /\ lastOp.prev.op = "skip"
    /\ \E id \in DOMAIN tasks :
          /\ tasks[id].status = "skipped"
          /\ tasks[id].scheduled_date > 0
          /\ tasks[id].task_type = "study"

\* C8 (ownership check): a completeTask or skipTask call whose task id
\* names no row, or a row of another learner, changes no table (no status,
\* no new task, no progress record, no daily-stat row) and, unless the
\* lookup itself failed, returns {success: false, 'Task not found'}.
C8_OwnershipCheck ==
    [][ ( /\ Finishes("complete") \/ Finishes("skip")
          /\ \/ lastOp'.taskId \notin DOMAIN tasks
             \/ tasks[lastOp'.taskId].user_id # lastOp'.userId )
        => /\ tasks' = tasks
           /\ nextId' = nextId
           /\ progress_logs' = progress_logs
           /\ daily_stats' = daily_stats
           /\ ~lastOp'.success
           /\ lastOp'.fault = "none" =>
                 lastOp'.message = MsgNotFound /\ ~lastOp'.raised ]_vars

\* A lifecycle call on a task that exists but belongs to another learner
\* returned the not-found result.
C8_Witness ==
    /\ lastOp.op \in {"complete", "skip"}
    /\ lastOp.message = MsgNotFound
    /\ lastOp.taskId \in DOMAIN tasks
    /\ tasks[lastOp.taskId].user_id # lastOp.userId

\* C9 (progress logging is best-effort), as claimed: a completeTask call on
\* an owned task whose progress_logs insert failed reports success, and the
\* task is completed.
C9_ProgressBestEffort ==
    (lastOp.op = "complete" /\ lastOp.fault = "progress")
    => /\ lastOp.success
       /\ ~lastOp.raised
       /\ tasks[lastOp.taskId].status = "completed"

\* C10 (daily-stat rollup is best-effort): a completeTask call on an owned
\* task during which the stats query or the upsert of updateDailyStats
\* failed returned success:true without raising, and the task is completed.
C10_DailyStatsBestEffort ==
    (lastOp.op = "complete" /\ lastOp.fault \in {"stats", "upsert"})
    => /\ lastOp.success
       /\ ~lastOp.raised
       /\ lastOp.message = MsgCompleted
       /\ lastOp.taskId \in DOMAIN tasks
       /\ tasks[lastOp.taskId].status = "completed"

\* completeTask returned success although the upsert failed; the progress
\* record was written and no daily-stat row was.
C10_Witness ==
    /\ lastOp.op = "complete" /\ lastOp.fault = "upsert" /\ lastOp.success
    /\ ~daily_stats[lastOp.userId].present
    /\ \E i \in 1..Len(progress_logs) : progress_logs[i].task_id = lastOp.taskId

\* C11 (failure reporting): a finished generateSchedule call never raised;
\* when a query of it was rejected (preferences, ranking, purge, capacity
\* query or insert) it returned success:false with a message that is none
\* of the nothing-to-schedule messages.  A completeTask call whose own
\* query was rejected (ownership select, status update, remaining-task
\* count, progress insert) and a skipTask call with any rejected query
\* raised to the caller.
C11_FailureReporting ==
    /\ lastOp.op = "gen" =>
          /\ ~lastOp.raised
          /\ lastOp.fault # "none" =>
                /\ ~lastOp.success
                /\ lastOp.message \notin
                       {MsgNoSubjects, MsgNoTopics, MsgAllCompleted, MsgNoTasks}
    /\ (lastOp.op = "complete" /\ lastOp.fault \in {"select", "update", "count", "progress"})
          => lastOp.raised /\ ~lastOp.success
    /\ (lastOp.op = "skip" /\ lastOp.fault # "none")
          => lastOp.raised /\ ~lastOp.success

\* A generateSchedule call failed on an INSERT after it had already
\* inserted a task, and returned the error result.
C11_Witness ==
    /\ lastOp.op = "gen" /\ lastOp.fault = "alloc"
    /\ lastOp.tasks # <<>>
    /\ ~lastOp.success /\ ~lastOp.raised

\* daily_study_hours * 60 clamped into [30, 480], hours in tenths.
ClampedMinutes(tenths) ==
    IF tenths * 6 < 30 THEN 30 ELSE IF tenths * 6 > 480 THEN 480 ELSE tenths * 6

\* C12 (capacity resolution), as claimed: daily_minutes is the preference
\* times 60 clamped into [30, 480], a zero or missing preference being
\* replaced by 4 hours first.
C12_CapacityResolution ==
    Done("resolveDailyMinutes") =>
        /\ probe.out \in 30..480
        /\ probe.out = ClampedMinutes(IF probe.arg = NULL \/ probe.arg = 0
                                      THEN 40 ELSE probe.arg)

\* C12, amended: daily_minutes is the preference times 60 clamped into
\* [30, 480]; a missing preference is replaced by 4 hours (240 minutes); a
\* zero preference is not replaced and clamps to 30; the result always lies
\* in [30, 480].
C12_CapacityResolutionZeroClamps ==
    Done("resolveDailyMinutes") =>
        /\ probe.out \in 30..480
        /\ probe.out = ClampedMinutes(IF probe.arg = NULL THEN 40 ELSE probe.arg)
        /\ probe.arg = NULL => probe.out = 240
        /\ probe.arg = 0 => probe.out = 30

\* The clamp was applied to a zero preference.
C12_Witness == Done("resolveDailyMinutes") /\ probe.arg = 0 /\ probe.out = 30

\* The tasks a run placed on day `date`.
tasksPlacedOn(generated, date) ==
    {i \in 1..Len(generated) : generated[i].row.scheduled_date = date}

\* At most one task on every day of the horizon, each of 25 to 30 minutes.
OneShortSessionPerDay(generated) ==
    /\ \A d \in 0..(ScenarioDays - 1) : Cardinality(tasksPlacedOn(generated, d)) <= 1
    /\ \A i \in 1..Len(generated) :
          /\ generated[i].row.scheduled_date \in 0..(ScenarioDays - 1)
          /\ generated[i].row.estimated_minutes \in 25..30

\* C13 (Scenario B): a 7-day generateSchedule run for a learner whose
\* daily_study_hours is 0 works with a capacity of 30 minutes a day, and
\* every day of the horizon receives at most one task, of 25 to 30 minutes.
C13_ScenarioB ==
    (world = "zero-hours" /\ W.daily_study_hours = 0) =>
        /\ \A p \in Procs :
              /\ gen[p].pc \notin {"idle", "prefs"} => gen[p].dailyMinutes = 30
              /\ OneShortSessionPerDay(gen[p].generatedTasks)
        /\ lastOp.op = "gen" =>
              /\ lastOp.days = 7
              /\ lastOp.fault \notin {"prefs"} => lastOp.dailyMinutes = 30
              /\ OneShortSessionPerDay(lastOp.tasks)

\* The 7-day run for the zero-hours learner succeeded with a task on each
\* of the 7 days, among them a 25-minute and a 30-minute session.
C13_Witness ==
    /\ world = "zero-hours" /\ lastOp.op = "gen" /\ lastOp.success
    /\ lastOp.dailyMinutes = 30
    /\ \A d \in 0..6 : Cardinality(tasksPlacedOn(lastOp.tasks, d)) = 1
    /\ \E i, j \in 1..Len(lastOp.tasks) :
          /\ lastOp.tasks[i].row.estimated_minutes = 25
          /\ lastOp.tasks[j].row.estimated_minutes = 30

Abs(n) == IF n < 0 THEN -n ELSE n

\* days_remaining of an exam distance: exam dates today or in the past
\* count as 1.
EffectiveDays(d) == IF d < 1 THEN 1 ELSE d

\* The exam part of a score in hundredths, for days_remaining d:
\* min(10, 30 / d) * 5 to the nearest hundredth, plus the flat 15 when
\* `bonus` says so.
IsExamPart(part, d, bonus) ==
    LET urgency == part - (IF bonus THEN 1500 ELSE 0)
    IN  IF d <= 3 THEN urgency = 5000
        ELSE urgency < 5000 /\ 2 * Abs(urgency * d - 15000) <= d

\* The performance term of the formula, by bracket of avg_score.
PerformanceTerm(p) ==
    CASE ~p.present \/ p.session_count = 0 -> 8
      [] p.present /\ p.session_count > 0 /\ p.avg_score < 40 -> 8
      [] p.present /\ p.session_count > 0 /\ p.avg_score \in 40..59 -> 5
      [] p.present /\ p.session_count > 0 /\ p.avg_score \in 60..74 -> 3
      [] p.present /\ p.session_count > 0 /\ p.avg_score \in 75..89 -> 0
      [] p.present /\ p.session_count > 0 /\ p.avg_score >= 90 -> -2

SpacedTerm(p) ==
    IF ~(p.present /\ p.has_last) THEN 0
    ELSE CASE p.days_since >= 30 -> 6
           [] p.days_since \in 14..29 -> 4
           [] p.days_since \in 7..13 -> 2
           [] p.days_since \in 3..6 -> 1
           [] p.days_since < 3 -> 0

ScoreWithPerf(p) == calculateTopicPriority(probe.arg.topic, probe.arg.subject, p)
ScoreWithExamDays(d) ==
    calculateTopicPriority(probe.arg.topic,
                           [probe.arg.subject EXCEPT !.has_exam = TRUE, !.exam_days = d],
                           probe.arg.perf)
ScoreWithoutExam ==
    calculateTopicPriority(probe.arg.topic,
                           [probe.arg.subject EXCEPT !.has_exam = FALSE],
                           probe.arg.perf)

C16_MonotonicWeakBoost ==
    (Done("calculateTopicPriority") /\ probe.arg.perf.present
        /\ probe.arg.perf.session_count > 0)
    => \A lower \in 0..MaxAvgScore :
          lower <= probe.arg.perf.avg_score =>
              ScoreWithPerf([probe.arg.perf EXCEPT !.avg_score = lower]) >= probe.out

\* The scorer was applied at avg_score 60, where one point less scores
\* strictly higher and one point more scores the same.
C16_Witness ==
    /\ Done("calculateTopicPriority")
    /\ probe.arg.perf.present
    /\ probe.arg.perf.avg_score = 60
    /\ ScoreWithPerf([probe.arg.perf EXCEPT !.avg_score = 59]) > probe.out
    /\ ScoreWithPerf([probe.arg.perf EXCEPT !.avg_score = 61]) = probe.out

\* C17 (exam-urgency monotonicity, P3): with an exam date set, the same
\* inputs with more days remaining never score higher (exam dates today or
\* in the past count as 1 day), and the exam's share of the score contains
\* the flat 15 once when days_remaining <= 3 and not at all otherwise.
C17_ExamUrgencyMonotone ==
    (Done("calculateTopicPriority") /\ probe.arg.subject.has_exam)
    => LET d == EffectiveDays(probe.arg.subject.exam_days)
       IN  /\ \A later \in (-2)..MaxExamDays :
                 EffectiveDays(later) >= d => ScoreWithExamDays(later) <= probe.out
           /\ IsExamPart(probe.out - ScoreWithoutExam, d, d <= 3)
           /\ probe.arg.subject.exam_days < 1 => probe.out = ScoreWithExamDays(1)

\* The scorer was applied 3 days before the exam: one day later the score
\* is lower by the bonus of 15 and by the urgency lost (50 - 37.5).
C17_Witness ==
    /\ Done("calculateTopicPriority")
    /\ probe.arg.subject.has_exam
    /\ probe.arg.subject.exam_days = 3
    /\ ScoreWithExamDays(4) = probe.out - 1500 - 1250

\* Position of the topic with this id in the fetched rows.
FetchPos(fetched, id) == CHOOSE i \in 1..Len(fetched) : fetched[i].id = id

\* C18 (ranking order): the list getPrioritizedTopics returns holds every
\* fetched topic once, in non-increasing order of priority_score; entries
\* of equal score stand in the order of the fetch, which lists higher
\* subject priority first and, within a subject priority, higher topic
\* importance first; without eligible topics the list is empty.
C18_RankingOrder ==
    Done("getPrioritizedTopics") =>
        LET list == probe.out.list
            fetched == probe.out.fetched
            w == probe.arg
            topicOf(e) == CHOOSE t \in w.topics : t.id = e.id
            level(e) == SubjectOf(w, topicOf(e)).priority_level
        IN  /\ Len(list) = Len(fetched)
            /\ {list[i].id : i \in 1..Len(list)} = {t.id : t \in w.topics}
            /\ \A i, j \in 1..Len(list) : i < j =>
                  /\ list[i].priority_score >= list[j].priority_score
                  /\ list[i].priority_score = list[j].priority_score =>
                        /\ FetchPos(fetched, list[i].id) < FetchPos(fetched, list[j].id)
                        /\ \/ level(list[i]) > level(list[j])
                           \/ /\ level(list[i]) = level(list[j])
                              /\ topicOf(list[i]).importance >= topicOf(list[j]).importance
            /\ w.topics = {} => list = <<>>

\* A ranked list of three in which two entries of equal score under
\* different subjects kept their fetch order while a third, fetched first,
\* was ranked last.
C18_Witness ==
    /\ Done("getPrioritizedTopics")
    /\ Len(probe.out.list) = 3
    /\ probe.out.list[1].priority_score = probe.out.list[2].priority_score
    /\ probe.out.list[1].priority_score > probe.out.list[3].priority_score
    /\ FetchPos(probe.out.fetched, probe.out.list[3].id) = 1
    /\ FetchPos(probe.out.fetched, probe.out.list[1].id) = 2
    /\ \E t1, t2 \in probe.arg.topics :
          /\ t1.id = probe.out.list[1].id /\ t2.id = probe.out.list[2].id
          /\ t1.subject_id # t2.subject_id

\* C20 (task priority range): the row generateSchedule inserts for a ranked
\* topic is pending, carries the topic's priority_score unchanged and has
\* priority = min(5, ceil(priority_score / 10)), which lies in 1..5 for
\* every eligible topic with subject priority and importance in 1..5; the
\* row skipTask inserts has a priority in 1..5 as well.
C20_TaskPriorityRange ==
    /\ Done("generatedRow") =>
          LET row == probe.out
              score == calculateTopicPriority(probe.arg.topic, probe.arg.subject,
                                              probe.arg.perf)
          IN  /\ row.status = "pending"
              /\ row.priority_score = score
              /\ row.priority \in 1..5
              /\ row.priority < 5 =>
                    (row.priority - 1) * 1000 < score /\ score <= row.priority * 1000
              /\ row.priority = 5 => score > 4000
    /\ Done("rescheduledRow") =>
          /\ probe.out.priority \in 1..5
          /\ probe.arg.priority # NULL =>
                probe.out.priority = (IF probe.arg.priority >= 4 THEN 5
                                      ELSE probe.arg.priority + 1)

\* The generator's row for the lowest-scoring eligible topic (score 5):
\* priority 1.
C20_Witness ==
    /\ Done("generatedRow")
    /\ probe.out.priority_score = 500
    /\ probe.out.priority = 1

\* The pool entry of process p for a topic id, before / after the step.
PoolEntry(pool, id) == pool[CHOOSE k \in 1..Len(pool) : pool[k].id = id]

\* 0.3 x (estimated_hours || 1), in tenths of a minute.
ReplenishFloor(topic) ==
    (IF topic.estimated_hours = NULL THEN 10 ELSE topic.estimated_hours) * 18

\* C19 (Scenario C, exhausted topics): in every step of a generateSchedule
\* run, a task is inserted only for a topic that is a revision topic or has
\* remaining_hours > 0 at that moment; and the remaining_hours of a pool
\* topic rises only in a step that wraps the cursor to the start and
\* increments the cycle count, where an exhausted topic is set to 0.3 x its
\* estimated hours.
C19_ExhaustedTopics ==
    [][ \A p \in Procs :
          LET g == gen[p]
              h == gen'[p]
          IN  /\ Len(h.generatedTasks) > Len(g.generatedTasks) =>
                    LET row == h.generatedTasks[Len(h.generatedTasks)].row
                        topic == PoolEntry(g.topicsToSchedule, row.topic_id)
                    IN  topic.is_revision \/ topic.remaining_hours > 0
              /\ (g.pc \in {"day", "alloc"} /\ h.pc \in {"day", "alloc"}) =>
                    \A k \in 1..Len(g.topicsToSchedule) :
                       h.topicsToSchedule[k].remaining_hours
                            > g.topicsToSchedule[k].remaining_hours =>
                          /\ h.cycleCount = g.cycleCount + 1
                          /\ h.cycleCount <= 3
                          /\ h.topicIndex = 0
                          /\ h.topicsToSchedule[k].remaining_hours
                                = ReplenishFloor(g.topicsToSchedule[k])
                          /\ g.topicsToSchedule[k].remaining_hours <= 0 =>
                                h.topicsToSchedule[k].remaining_hours > 0 ]_vars

\* Scenario C: the one-hour topic was consumed by a 60-minute session on the
\* first day and given a second task only after a wrap; the run has used up
\* its three wraps and the topic sits exhausted with the cursor past it.
C19_Witness ==
    /\ world = "one-hour-topic"
    /\ gen[1].pc = "day" /\ gen[1].cycleCount = 3
    /\ Len(gen[1].generatedTasks) >= 2
    /\ gen[1].generatedTasks[1].row.topic_id = 1
    /\ gen[1].generatedTasks[1].row.estimated_minutes = 60
    /\ gen[1].generatedTasks[1].row.scheduled_date = 0
    /\ \E i \in 2..Len(gen[1].generatedTasks) :
          /\ gen[1].generatedTasks[i].row.topic_id = 1
          /\ gen[1].generatedTasks[i].row.scheduled_date > 0
    /\ PoolEntry(gen[1].topicsToSchedule, 1).remaining_hours <= 0


\* ------------------------------------------------ concurrent regeneration
\* Two generateSchedule calls for the same learner, one call per process; the
\* event loop interleaves them at their awaits.  No query fails here.
ConcWorlds == {"one-short-topic", "tight-day", "two-short-topics"}

ConcInit ==
    /\ world \in ConcWorlds
    /\ tasks = [id \in 1..Len(W.tasks) |-> W.tasks[id]]
    /\ nextId = Len(W.tasks) + 1
    /\ progress_logs = <<>>
    /\ daily_stats = [u \in Users |-> NoStat]
    /\ gen = [p \in Procs |-> GenIdle]
    /\ lastOp = NoOp
    /\ opCount = 0
    /\ probe = NoProbe

ConcNext ==
    \E p \in Procs :
        \/ \E days \in 1..MaxDays : opCount < Cardinality(Procs) /\ GenStart(p, Owner, days)
        \/ GenPrefs(p)
        \/ GenResolve(p)
        \/ GenPurge(p)
        \/ GenDayQuery(p)
        \/ GenInsert(p)
        \/ GenEndDay(p)
        \/ GenReturn(p)

ConcSpec == ConcInit /\ [][ConcNext]_vars

\* The pending study-task minutes of the learner on a date.
pendingStudyMinutes(store, userId, date) ==
    SumOver(Minutes(store),
            {id \in DOMAIN store :
                /\ store[id].user_id = userId
                /\ store[id].scheduled_date = date
                /\ store[id].status = "pending"
                /\ store[id].task_type = "study"})

\* The not-completed minutes of the learner on a date, read off the table.
tableMinutes(store, userId, date) ==
    SumOver(Minutes(store),
            {id \in DOMAIN store :
                /\ store[id].user_id = userId
                /\ store[id].scheduled_date = date
                /\ store[id].status # "completed"})

Overfilled(store, date) ==
    pendingStudyMinutes(store, Owner, date) > resolveDailyMinutes(getUserPreferences(W, Owner))

\* The ids of a call's task list.
listIds(generated) == {generated[k].id : k \in 1..Len(generated)}

\* C21 (concurrent regeneration): a task row leaves the table only in the
\* purge step of some call, whose own list is still empty, so a listed task
\* that is gone was deleted by the other call's purge; and an insert pushes
\* the pending study minutes of a day over daily_minutes only when the
\* table holds more minutes on that day than the inserting call's capacity
\* query found plus what the call itself placed since, i.e. when the other
\* call inserted in between.  Both unsafe states are reachable.
C21_ConcurrentRegeneration ==
    [][\A p \in Procs :
          LET g == gen[p]
              h == gen'[p]
              d == g.dayOffset
          IN  /\ (g.pc = "purge" /\ h.pc = "day") =>
                    /\ g.generatedTasks = <<>>
                    /\ DOMAIN tasks \ DOMAIN tasks' = h.deleted
              /\ (DOMAIN tasks \ DOMAIN tasks' # {}) =>
                    \E q \in Procs : gen[q].pc = "purge" /\ gen'[q].pc = "day"
              /\ (/\ g.pc = "alloc"
                  /\ h.generatedTasks # g.generatedTasks
                  /\ ~Overfilled(tasks, d)
                  /\ Overfilled(tasks', d)) =>
                    tableMinutes(tasks, Owner, d)
                        > g.committed[Len(g.committed)] + placedOn(g.generatedTasks, d)]_vars

\* Both calls filled the same day over daily_minutes, and the call that
\* returned lists a task the other call's purge deleted.
C21_Witness ==
    /\ \E d \in Dates : Overfilled(tasks, d)
    /\ lastOp.op = "gen" /\ lastOp.success
    /\ \E p \in Procs : listIds(lastOp.tasks) \cap gen[p].deleted # {}

\* C22 (purge scope): the purge step of generateSchedule deletes exactly
\* the learner's tasks that a generateSchedule run inserted and that are
\* still pending and dated after today; a pending future task of another
\* origin (created by hand, or the replacement skipTask inserted) stays.
C22_PurgeScope ==
    [][\A p \in Procs :
          (gen[p].pc = "purge" /\ gen'[p].pc = "day") =>
              DOMAIN tasks \ DOMAIN tasks' =
                  {id \in DOMAIN tasks :
                      /\ tasks[id].user_id = gen[p].userId
                      /\ tasks[id].origin = "gen"
                      /\ tasks[id].status = "pending"
                      /\ tasks[id].scheduled_date > 0}]_vars

\* C23 (no status guard): completeTask and skipTask on an owned task that
\* is already completed or skipped, with no query failing, report success
\* and re-apply their transition: skipTask leaves the task skipped and
\* inserts one more pending replacement, completeTask sets the task
\* (skipped ones too) to completed.
C23_NoStatusGuard ==
    [][ ( /\ Finishes("complete") \/ Finishes("skip")
          /\ lastOp'.fault = "none"
          /\ lastOp'.taskId \in DOMAIN tasks
          /\ tasks[lastOp'.taskId].user_id = lastOp'.userId
          /\ tasks[lastOp'.taskId].status \in {"completed", "skipped"} )
        => /\ lastOp'.success /\ ~lastOp'.raised
           /\ lastOp'.op = "skip" =>
                 /\ tasks'[lastOp'.taskId].status = "skipped"
                 /\ DOMAIN tasks' = DOMAIN tasks \cup {nextId}
                 /\ nextId \notin DOMAIN tasks
                 /\ tasks'[nextId].status = "pending"
                 /\ tasks'[nextId].topic_id = tasks[lastOp'.taskId].topic_id
           /\ lastOp'.op = "complete" =>
                 /\ tasks'[lastOp'.taskId].status = "completed"
                 /\ DOMAIN tasks' = DOMAIN tasks ]_vars

\* skipTask has succeeded twice on the same task: one skipped task, two
\* replacements.
C23_Witness ==
    /\ lastOp.op = "skip" /\ lastOp.success /\ lastOp.prev.op = "skip"
    /\ Cardinality({id \in DOMAIN tasks : tasks[id].status = "skipped"}) = 1
    /\ Cardinality({id \in DOMAIN tasks : tasks[id].origin = "skip"}) = 2
    /\ tasks[lastOp.taskId].status = "skipped"

\* The 1-based pool position of the topic of a generated task.
poolPos(pool, entry) == CHOOSE k \in 1..Len(pool) : pool[k].id = entry.row.topic_id

\* How many of a run's tasks are for a topic on a date.
placedFor(generated, topicId, date) ==
    Cardinality({j \in 1..Len(generated) :
        /\ generated[j].row.topic_id = topicId
        /\ generated[j].row.scheduled_date = date})

\* C24 (variety rule), as claimed: after a task is placed the cursor moves
\* to the next topic if and only if the topic is now exhausted, or two
\* tasks have been placed for this same topic on this day, or the random
\* draw exceeded 0.6; otherwise it stays on the topic.
C24_VarietyRule ==
    [][\A p \in Procs :
          LET g == gen[p]
              h == gen'[p]
              new == h.generatedTasks[Len(h.generatedTasks)]
              k == poolPos(h.topicsToSchedule, new)
              drew == Len(h.draws) > Len(g.draws)
          IN  (g.pc = "alloc" /\ Len(h.generatedTasks) = Len(g.generatedTasks) + 1) =>
                  /\ h.topicIndex \in {k - 1, k}
                  /\ h.topicIndex = k <=>
                        \/ h.topicsToSchedule[k].remaining_hours <= 0
                        \/ placedFor(h.generatedTasks, new.row.topic_id, g.dayOffset) >= 2
                        \/ drew /\ h.draws[Len(h.draws)]]_vars

\* The allocation loop of a day, entered with the cursor at topicIndex and
\* remainingMinutes free, runs off the end of the pool without placing a
\* task of a topic at or after the cursor.
runsOffPool(pool, topicIndex, remainingMinutes) ==
    \A k \in (topicIndex + 1)..Len(pool) :
        \/ ~pool[k].is_revision /\ pool[k].remaining_hours <= 0
        \/ sessionMinutes(pool[k], remainingMinutes) > remainingMinutes

\* C25 (cycle cap and replenishment): in a generateSchedule run the cursor
\* moves backward only in a wrap, which sets it to 0 and counts one more
\* cycle, up to 3; a wrap happens only when the cursor has reached the end
\* of the pool; it sets every non-revision topic's remaining_hours to
\* max(0.3 x estimated hours, remaining_hours), lowering none; and once the
\* cursor is at the end of the pool with 3 wraps made, no task is emitted
\* on the later days and the cursor stays there.
C25_CycleCap ==
    [][\A p \in Procs :
          LET g == gen[p]
              h == gen'[p]
              pool == g.topicsToSchedule
          IN  (g.pc \in {"day", "alloc"} /\ h.pc \in {"day", "alloc"}) =>
                 /\ h.cycleCount \in {g.cycleCount, g.cycleCount + 1}
                 /\ h.cycleCount <= 3
                 /\ h.topicIndex < g.topicIndex => h.cycleCount = g.cycleCount + 1
                 /\ h.cycleCount = g.cycleCount + 1 =>
                       /\ h.topicIndex = 0
                       /\ h.dayOffset = g.dayOffset + 1
                       /\ \/ g.topicIndex >= Len(pool)
                          \/ /\ g.remainingMinutes >= 25
                             /\ runsOffPool(pool, g.topicIndex, g.remainingMinutes)
                       /\ \A k \in 1..Len(pool) :
                             /\ h.topicsToSchedule[k].remaining_hours >= pool[k].remaining_hours
                             /\ h.topicsToSchedule[k].remaining_hours =
                                   IF pool[k].is_revision THEN pool[k].remaining_hours
                                   ELSE Max2(ReplenishFloor(pool[k]), pool[k].remaining_hours)
                 /\ h.cycleCount = g.cycleCount =>
                       \A k \in 1..Len(pool) :
                          h.topicsToSchedule[k].remaining_hours <= pool[k].remaining_hours
                 /\ (g.cycleCount = 3 /\ g.topicIndex >= Len(pool)) =>
                       /\ h.generatedTasks = g.generatedTasks
                       /\ h.topicIndex = g.topicIndex]_vars

\* The third wrap was made, the cursor is back at the end of the pool and
\* two or more days of the horizon are left.
C25_Witness ==
    /\ gen[1].pc = "day" /\ gen[1].cycleCount = 3
    /\ gen[1].topicIndex = Len(gen[1].topicsToSchedule)
    /\ gen[1].dayOffset < gen[1].days - 1
    /\ Len(gen[1].generatedTasks) > 0


\* ------------------------------------------------------------ termination
\* One generateSchedule call, over every world and a choice of horizons.
\* Every query the call awaits is answered in the end, so the step the call
\* is waiting to take is taken (weak fairness on the call's steps); a query
\* may also be rejected, which is not required to happen.
LiveInit ==
    /\ world \in {w.name : w \in Worlds \cup ScenarioWorlds}
    /\ tasks = [id \in 1..Len(W.tasks) |-> W.tasks[id]]
    /\ nextId = Len(W.tasks) + 1
    /\ progress_logs = <<>>
    /\ daily_stats = [u \in Users |-> NoStat]
    /\ gen = [p \in Procs |-> GenIdle]
    /\ lastOp = NoOp
    /\ opCount = 0
    /\ probe = NoProbe

GenStep(p) ==
    \/ GenPrefs(p)
    \/ GenResolve(p)
    \/ GenPurge(p)
    \/ GenDayQuery(p)
    \/ GenInsert(p)
    \/ GenEndDay(p)
    \/ GenReturn(p)

LiveNext ==
    \/ /\ Quiet /\ lastOp.op = "none"
       /\ \E days \in (1..MaxDays) \cup {ScenarioDays} : GenStart(1, Owner, days)
    \/ GenStep(1)
    \/ GenDbFault(1)

LiveSpec == LiveInit /\ [][LiveNext]_vars /\ WF_vars(GenStep(1))

\* C26 (termination): every generateSchedule call returns, whatever the
\* pool, the horizon and the random draws; on the way every task placed
\* takes at least 25 minutes off the day's remaining minutes, the day
\* counter never goes back, and the cursor is reset at most 3 times.
C26_Termination ==
    /\ (gen[1].pc # "idle") ~> (gen[1].pc = "idle" /\ lastOp.op = "gen")
    /\ [][LET g == gen[1]
              h == gen'[1]
          IN  (g.pc \in {"day", "alloc"} /\ h.pc \in {"day", "alloc"}) =>
                 /\ h.dayOffset \in {g.dayOffset, g.dayOffset + 1}
                 /\ h.cycleCount <= 3
                 /\ Len(h.generatedTasks) > Len(g.generatedTasks) =>
                       /\ h.dayOffset = g.dayOffset
                       /\ h.remainingMinutes <= g.remainingMinutes - 25
                       /\ h.remainingMinutes >= 0]_vars

\* A run over the 7-day horizon has returned after placing tasks, drawing
\* random numbers and using up its three wraps' worth of days.
C26_Witness ==
    /\ lastOp.op = "gen" /\ lastOp.success /\ lastOp.fault = "none"
    /\ lastOp.days = ScenarioDays
    /\ Len(lastOp.committed) = ScenarioDays
    /\ Len(lastOp.draws) >= 2
    /\ Len(lastOp.tasks) >= 2

\* max(25, round-to-nearest-5 of min(30 if revision else remaining_hours x
\* 60, 60, remainingMinutes)), halves rounded up; remaining_hours in tenths
\* of a minute.
sessionLength(topic, remainingMinutes) ==
    LET wanted == IF topic.is_revision THEN 300 ELSE topic.remaining_hours
        need == IF wanted < 600 /\ wanted < remainingMinutes * 10 THEN wanted
                ELSE IF remainingMinutes * 10 < 600 THEN remainingMinutes * 10
                ELSE 600
        rounded == 5 * ((need + 25) \div 50)
    IN  IF rounded < 25 THEN 25 ELSE rounded

\* C27 (session length): a task emitted by generateSchedule has
\* estimated_minutes = max(25, round-to-nearest-5 of min(30 if revision
\* else remaining_hours x 60, 60, the day's remaining minutes)): a multiple
\* of 5 from 25 to 60, at most the day's remaining minutes when placed, and
\* taken off them; a candidate the cursor passed on the way was exhausted
\* or had a rounded length above the remaining minutes, and passing it
\* left the remaining minutes unchanged.
C27_SessionLength ==
    [][\A p \in Procs :
          LET g == gen[p]
              h == gen'[p]
              pool == g.topicsToSchedule
          IN  /\ (g.pc = "alloc" /\ Len(h.generatedTasks) = Len(g.generatedTasks) + 1) =>
                    LET new == h.generatedTasks[Len(h.generatedTasks)]
                        k == poolPos(pool, new)
                        minutes == new.row.estimated_minutes
                    IN  /\ minutes = sessionLength(pool[k], g.remainingMinutes)
                        /\ minutes % 5 = 0
                        /\ minutes >= 25 /\ minutes <= 60
                        /\ minutes <= g.remainingMinutes
                        /\ h.remainingMinutes = g.remainingMinutes - minutes
                        /\ k > g.topicIndex
                        /\ \A j \in (g.topicIndex + 1)..(k - 1) :
                              \/ ~pool[j].is_revision /\ pool[j].remaining_hours <= 0
                              \/ sessionLength(pool[j], g.remainingMinutes) > g.remainingMinutes
              /\ (g.pc = "alloc" /\ h.pc = "day") =>
                    /\ h.generatedTasks = g.generatedTasks
                    /\ h.remainingMinutes = g.remainingMinutes
                    /\ g.remainingMinutes >= 25 =>
                          \A j \in (g.topicIndex + 1)..Len(pool) :
                              \/ ~pool[j].is_revision /\ pool[j].remaining_hours <= 0
                              \/ sessionLength(pool[j], g.remainingMinutes) > g.remainingMinutes]_vars

\* A run passed a topic whose rounded session (55 minutes) was above the 54
\* remaining minutes of the day and placed a task of the next topic.
C27_Witness ==
    \E p \in Procs :
       /\ gen[p].pc = "alloc"
       /\ Len(gen[p].generatedTasks) = 1
       /\ gen[p].dayOffset = 0
       /\ LET new == gen[p].generatedTasks[1]
              k == poolPos(gen[p].topicsToSchedule, new)
              before == gen[p].remainingMinutes + new.row.estimated_minutes
          IN  /\ k > 1
              /\ gen[p].topicsToSchedule[1].remaining_hours > 0
              /\ sessionLength(gen[p].topicsToSchedule[1], before) > before

\* C28 (per-topic daily limit): in a generateSchedule run, in flight or
\* finished, no topic has more than 2 of the run's tasks on the same day.
C28_PerTopicDailyLimit ==
    /\ \A p \in Procs : \A i \in 1..Len(gen[p].generatedTasks) :
          placedFor(gen[p].generatedTasks,
                    gen[p].generatedTasks[i].row.topic_id,
                    gen[p].generatedTasks[i].row.scheduled_date) <= 2
    /\ lastOp.op = "gen" =>
          \A i \in 1..Len(lastOp.tasks) :
             placedFor(lastOp.tasks, lastOp.tasks[i].row.topic_id,
                       lastOp.tasks[i].row.scheduled_date) <= 2

\* A run gave one topic two tasks on a day that still had 25 free minutes
\* or more and another topic waiting.
C28_Witness ==
    /\ gen[1].pc = "alloc"
    /\ gen[1].remainingMinutes >= 25
    /\ gen[1].tasksAddedThisDay = 2
    /\ Len(gen[1].generatedTasks) >= 2
    /\ LET n == Len(gen[1].generatedTasks)
       IN  /\ gen[1].generatedTasks[n].row.topic_id = gen[1].generatedTasks[n - 1].row.topic_id
           /\ gen[1].generatedTasks[n - 1].row.scheduled_date = gen[1].dayOffset
           /\ PoolEntry(gen[1].topicsToSchedule,
                        gen[1].generatedTasks[n].row.topic_id).remaining_hours > 0

\* C29 (priority order within a day): in a generateSchedule run the tasks
\* emitted for one day come in non-increasing priority_score order; a task
\* is emitted for a pool entry at or after the cursor, the cursor ends at
\* or just after that entry, and the cursor moves backward only in a wrap,
\* so between two wraps the tasks come in non-decreasing pool order across
\* the days.
C29_PriorityOrder ==
    [][\A p \in Procs :
          LET g == gen[p]
              h == gen'[p]
          IN  (g.pc \in {"day", "alloc"} /\ h.pc \in {"day", "alloc"}) =>
                 /\ h.topicIndex < g.topicIndex =>
                       /\ h.cycleCount = g.cycleCount + 1
                       /\ h.generatedTasks = g.generatedTasks
                 /\ Len(h.generatedTasks) = Len(g.generatedTasks) + 1 =>
                       LET new == h.generatedTasks[Len(h.generatedTasks)]
                           k == poolPos(g.topicsToSchedule, new)
                       IN  /\ h.cycleCount = g.cycleCount
                           /\ k - 1 >= g.topicIndex
                           /\ h.topicIndex \in {k - 1, k}
                           /\ new.row.priority_score = g.topicsToSchedule[k].priority_score
                           /\ \A i \in 1..Len(g.generatedTasks) :
                                 g.generatedTasks[i].row.scheduled_date = new.row.scheduled_date =>
                                    /\ g.generatedTasks[i].row.priority_score >= new.row.priority_score
                                    /\ poolPos(g.topicsToSchedule, g.generatedTasks[i]) <= k]_vars

\* A run placed tasks of two topics with different scores on one day.
C29_Witness ==
    /\ Len(gen[1].generatedTasks) >= 2
    /\ LET n == Len(gen[1].generatedTasks)
       IN  /\ gen[1].generatedTasks[n].row.scheduled_date
                 = gen[1].generatedTasks[n - 1].row.scheduled_date
           /\ gen[1].generatedTasks[n].row.priority_score
                 < gen[1].generatedTasks[n - 1].row.priority_score
           /\ gen[1].cycleCount >= 1

\* C30 (state unchanged on failure): a generateSchedule call that returned
\* success:false (empty pool, no task generated, or a rejected query) has
\* deleted no task in its purge and inserted none.
C30_UnchangedOnFailure ==
    (lastOp.op = "gen" /\ ~lastOp.success) =>
        /\ lastOp.deleted = {}
        /\ lastOp.tasks = <<>>

=============================================================================
